---- MODULE Spec2Model ----
(***************************************************************************)
(* Model of the BatchRecall plugin (src/main.py).                          *)
(*                                                                         *)
(* The plugin runs on one asyncio event loop.  A coroutine runs without    *)
(* interruption from one await that suspends to the next, so every action  *)
(* below is one such run: a hook or a task from where it was resumed up to *)
(* its next suspension (or its end).  A task's done callback is scheduled  *)
(* by the loop when the task finishes and runs as a later step.            *)
(***************************************************************************)
EXTENDS Integers, Sequences, FiniteSets

\* ---------------------------------------------------------------- bounds
MaxEvents == 2      \* outgoing bot messages handed to the intercept hook
MaxDelay == 1       \* largest configured recall_time, in clock ticks
MaxHist == 3        \* longest history the history service returns
MaxCount == 3       \* largest number written after the batch command

\* ------------------------------------------------------ program constants
BenignRetcode == 1200
DefaultBatchMax == 20
FetchFactor == 3
FetchCap == 100

Events == 1..MaxEvents
GroupIds == {"1", "2"}
NoGroup == ""

VARIABLES
    conf,            \* self.conf, read-only after construction
    recall_tasks,    \* self.recall_tasks: the handles in the registry
    task,            \* the asyncio.Task created by intercept invocation i
    icpt,            \* the invocations of intercept_and_recall
    termPc,          \* position of terminate(): "idle", "awaiting", "done"
    termSnap,        \* the handles terminate() passed to asyncio.gather
    termAlone,       \* history: no intercept step ran since terminate() began
    batch            \* the invocation of batch_recall_command

schedVars == <<recall_tasks, task, icpt, termPc, termSnap, termAlone>>
vars == <<conf, recall_tasks, task, icpt, termPc, termSnap, termAlone, batch>>

\* ------------------------------------------------------------ task states
Live == {"scheduled", "sleeping", "deleting"}
Completed == {"success", "benign", "error", "noop"}
\* "raised": the coroutine ended with an exception other than CancelledError
Terminal == Completed \cup {"cancelled", "raised"}

\* What a delete call did: kind is "none" (no call yet), "pending", "ok",
\* "ActionFailed" (with its retcode), "Exception", or "cancelled".
Outcome(kind, retcode) == [kind |-> kind, retcode |-> retcode]

NoTask ==
    [state |-> "none", mid |-> 0, slept |-> 0, cancelReq |-> FALSE,
     delRes |-> Outcome("none", 0), cbPending |-> FALSE, deletes |-> 0, errors |-> 0]

\* chain: what the hook did to result.chain, "kept" as it was or "cleared"
NoRes == [kind |-> "none", has_id |-> FALSE, message_id |-> 0]
NoIntercept ==
    [pc |-> "idle", chain |-> "kept", sends |-> 0, outcome |-> "none", res |-> NoRes]

NoBatch ==
    [pc |-> "idle", target_qq |-> "", requested |-> 0, count |-> 0,
     fetch_count |-> 0, history |-> <<>>, to_recall |-> <<>>, pos |-> 0,
     success |-> 0, deleted |-> <<>>, errors |-> 0, replies |-> <<>>,
     fetches |-> 0]

\* task.done()
Done(t) == task[t].state \in Terminal

\* --------------------------------------------------------- configuration
Configs ==
    [recall_time : 0..MaxDelay,
     enable_private_recall : BOOLEAN,
     enable_group_recall : BOOLEAN,
     group_whitelist : {{}, {"1"}},
     batch_max_count : {DefaultBatchMax}]

\* The policy keys left at the defaults the code reads them with
\* (lines 57, 60, 63): every delay, both contexts enabled, no allow-list.
DefaultPolicyConfigs ==
    {c \in Configs : /\ c.enable_private_recall /\ c.enable_group_recall
                     /\ c.group_whitelist = {}}

\* Mutant: the allow-list is not consulted.
ShouldEnableRecallNoAllowList(gid) ==
    IF gid = NoGroup THEN conf.enable_private_recall ELSE conf.enable_group_recall

\* _should_enable_recall(event), gid = event.get_group_id() ("" when private)
ShouldEnableRecall(gid) ==
    IF gid = NoGroup
    THEN conf.enable_private_recall
    ELSE IF conf.group_whitelist # {} /\ gid \notin conf.group_whitelist
         THEN FALSE
         ELSE conf.enable_group_recall

\* ------------------------------------------------------- intercept hook
\* What the send call hands back: it raises, or returns something that is
\* not a dict, or a dict without message_id, or a dict with message_id.
SendResults(i) ==
    {[kind |-> "exc", has_id |-> FALSE, message_id |-> 0],
     [kind |-> "nondict", has_id |-> FALSE, message_id |-> 0],
     [kind |-> "dict", has_id |-> FALSE, message_id |-> 0],
     [kind |-> "dict", has_id |-> TRUE, message_id |-> 0],
     [kind |-> "dict", has_id |-> TRUE, message_id |-> i]}

\* lines 115-117: message_id = send_result.get("message_id") for a dict
ExtractMessageId(res) ==
    IF res.kind = "dict" /\ res.has_id THEN res.message_id ELSE 0

TouchHook == termAlone' = (termAlone /\ termPc = "idle")

\* The events the hook is called with: the group id ("" when private), the
\* platform, the result's chain and what parsing the chain gives.
Chains == {"none", "empty", "full"}
Parses == {"ok", "empty", "exc"}

\* Mutant: the send call is issued with the result's chain left in place.
SendingChainKept ==
    [NoIntercept EXCEPT !.pc = "sending", !.chain = "kept", !.sends = 1]

\* lines 85-110: result.chain.clear(), then the one send call of the hook
Sending ==
    [NoIntercept EXCEPT !.pc = "sending", !.chain = "cleared", !.sends = 1]

\* intercept_and_recall from its entry to the await of the send call, for
\* one event
InterceptStartOn(i, gid, isAio, chain, parsed) ==
    /\ icpt[i].pc = "idle"
    /\ IF i = 1 THEN TRUE ELSE icpt[i - 1].pc # "idle"
    /\ icpt' = [icpt EXCEPT ![i] =
           IF ~ShouldEnableRecall(gid) \/ ~isAio
           THEN [NoIntercept EXCEPT !.pc = "done", !.chain = "kept", !.outcome = "skipped"]
           ELSE IF chain # "full"
           THEN [NoIntercept EXCEPT !.pc = "done", !.chain = "kept", !.outcome = "empty_chain"]
           ELSE IF parsed = "exc"
           THEN [NoIntercept EXCEPT !.pc = "done", !.chain = "cleared", !.outcome = "failed"]
           ELSE IF parsed = "empty"
           THEN [NoIntercept EXCEPT !.pc = "done", !.chain = "cleared", !.outcome = "empty_msg"]
           ELSE Sending]
    /\ TouchHook
    /\ UNCHANGED <<conf, recall_tasks, task, termPc, termSnap, batch>>

InterceptStart(i) ==
    \E gid \in GroupIds \cup {NoGroup}, isAio \in BOOLEAN,
       chain \in Chains, parsed \in Parses :
        InterceptStartOn(i, gid, isAio, chain, parsed)

\* Mutant: the check of the message id (line 119) left out.
ShouldScheduleAnyResult(res) == res.kind # "exc"

\* lines 119-126: a task is created for a truthy message id only
ShouldSchedule(res) == res.kind # "exc" /\ ExtractMessageId(res) # 0

\* Mutant: the new task's handle is not added to the registry.
RegisterNever(reg, i) == reg

\* line 126: self.recall_tasks.add(task), in the step that created the task
Register(reg, i) == reg \cup {i}

\* intercept_and_recall resumed with the send call's outcome, to its end
InterceptSendReturn(i) ==
    /\ icpt[i].pc = "sending"
    /\ \E res \in SendResults(i) :
          IF ShouldSchedule(res)
          THEN /\ task' = [task EXCEPT ![i] =
                      [NoTask EXCEPT !.state = "scheduled", !.mid = ExtractMessageId(res)]]
               /\ recall_tasks' = Register(recall_tasks, i)
               /\ icpt' = [icpt EXCEPT ![i].pc = "done", ![i].res = res,
                                        ![i].outcome = "scheduled"]
          ELSE /\ icpt' = [icpt EXCEPT ![i].pc = "done", ![i].res = res,
                      ![i].outcome = IF res.kind = "exc" THEN "send_failed" ELSE "no_id"]
               /\ UNCHANGED <<task, recall_tasks>>
    /\ TouchHook
    /\ UNCHANGED <<conf, termPc, termSnap, batch>>

\* ------------------------------------------------------------ recall task
\* The task finishes: the loop schedules its done callbacks.
Finish(t, st) ==
    [task[t] EXCEPT !.state = st, !.cbPending = TRUE]

\* First step of _recall_msg: up to await asyncio.sleep(recall_time).  A
\* task cancelled before it ever ran ends cancelled without running.
TaskStart(t) ==
    /\ task[t].state = "scheduled"
    /\ task' = [task EXCEPT ![t] =
           IF task[t].cancelReq THEN Finish(t, "cancelled")
           ELSE [task[t] EXCEPT !.state = "sleeping"]]
    /\ UNCHANGED <<conf, recall_tasks, icpt, termPc, termSnap, termAlone, batch>>

\* The clock advances by one tick for every sleeping task.
Tick ==
    /\ \E t \in Events : task[t].state = "sleeping" /\ task[t].slept < conf.recall_time
    /\ task' = [t \in Events |->
           IF task[t].state = "sleeping" /\ task[t].slept < conf.recall_time
           THEN [task[t] EXCEPT !.slept = @ + 1]
           ELSE task[t]]
    /\ UNCHANGED <<conf, recall_tasks, icpt, termPc, termSnap, termAlone, batch>>

\* Mutant: the task does not wait for the delay.
SleepOverAtOnce(t) == TRUE

\* asyncio.sleep(recall_time) has returned
SleepOver(t) == task[t].slept >= conf.recall_time

\* _recall_msg resumed from the sleep: lines 40-42, up to the await of
\* delete_msg; or CancelledError raised at the sleep, whose timer is dropped.
TaskWake(t) ==
    /\ task[t].state = "sleeping"
    /\ task[t].cancelReq \/ SleepOver(t)
    /\ task' = [task EXCEPT ![t] =
           IF task[t].cancelReq THEN [Finish(t, "cancelled") EXCEPT !.slept = 0]
           ELSE IF task[t].mid # 0
           THEN [task[t] EXCEPT !.state = "deleting", !.delRes = Outcome("pending", 0),
                                !.deletes = @ + 1]
           ELSE Finish(t, "noop")]
    /\ UNCHANGED <<conf, recall_tasks, icpt, termPc, termSnap, termAlone, batch>>

\* Outcomes of client.delete_msg: it returns, raises ActionFailed with
\* retcode 1200, ActionFailed with another retcode, or another Exception.
\* 100 stands for every retcode that is not 1200.
Retcodes == {BenignRetcode, 100}
DeleteOutcomes ==
    {Outcome("ok", 0), Outcome("Exception", 0)}
        \cup {Outcome("ActionFailed", r) : r \in Retcodes}

\* The delete call's answer arrives (the awaited future is resolved).
DeleteReturn(t) ==
    /\ task[t].state = "deleting"
    /\ task[t].delRes.kind = "pending"
    /\ \E o \in DeleteOutcomes : task' = [task EXCEPT ![t].delRes = o]
    /\ UNCHANGED <<conf, recall_tasks, icpt, termPc, termSnap, termAlone, batch>>

\* Mutant: the return of line 49 left out, so retcode 1200 is logged as an error.
RecallOutcomeNoReturn(t, o) ==
    IF o.kind = "ok" THEN Finish(t, "success")
    ELSE [Finish(t, "error") EXCEPT !.errors = @ + 1]

\* Mutant: a failed delete call is tried again after another sleep.
RecallOutcomeRetry(t, o) ==
    IF o.kind = "ok" THEN Finish(t, "success")
    ELSE [task[t] EXCEPT !.state = "sleeping", !.errors = @ + 1]

\* lines 43-52: how _recall_msg ends for each outcome of delete_msg
RecallOutcome(t, o) ==
    IF o.kind = "ok" THEN Finish(t, "success")
    ELSE IF o.kind = "ActionFailed" /\ o.retcode = BenignRetcode THEN Finish(t, "benign")
    ELSE [Finish(t, "error") EXCEPT !.errors = @ + 1]

\* _recall_msg resumed from delete_msg, to its end; or CancelledError
\* raised at the await (it is no Exception, so no handler catches it): the
\* task never sees what the call did.
TaskResume(t) ==
    /\ task[t].state = "deleting"
    /\ task[t].cancelReq \/ task[t].delRes.kind # "pending"
    /\ task' = [task EXCEPT ![t] =
           IF task[t].cancelReq
           THEN [Finish(t, "cancelled") EXCEPT !.delRes = Outcome("cancelled", 0)]
           ELSE RecallOutcome(t, task[t].delRes)]
    /\ UNCHANGED <<conf, recall_tasks, icpt, termPc, termSnap, termAlone, batch>>

\* Mutant: the callback empties the registry.
DiscardAll(reg, t) == {}

\* Mutant: the callback removes nothing.
DiscardNothing(reg, t) == reg

\* self.recall_tasks.discard(task)
Discard(reg, t) == reg \ {t}

\* _remove_task, the task's done callback
RemoveTask(t) ==
    /\ task[t].cbPending
    /\ recall_tasks' = Discard(recall_tasks, t)
    /\ task' = [task EXCEPT ![t].cbPending = FALSE]
    /\ UNCHANGED <<conf, icpt, termPc, termSnap, termAlone, batch>>

\* ---------------------------------------------------------------- teardown
\* Mutant: every live task is cancelled, registered or not.
CancelEveryLive(reg) ==
    [t \in Events |->
        IF task[t].state \in Live THEN [task[t] EXCEPT !.cancelReq = TRUE] ELSE task[t]]

\* lines 175-177: task.cancel() for every handle that is not done
CancelAll(reg) ==
    [t \in Events |->
        IF t \in reg /\ ~Done(t) THEN [task[t] EXCEPT !.cancelReq = TRUE] ELSE task[t]]

\* terminate() from its entry to the await of asyncio.gather; gather of
\* no handles is already resolved, so terminate() then runs to its end.
TerminateStart ==
    /\ termPc \in {"idle", "done"}
    /\ task' = CancelAll(recall_tasks)
    /\ termSnap' = recall_tasks
    /\ termAlone' = (\A i \in Events : icpt[i].pc # "sending")
    /\ IF recall_tasks = {}
       THEN termPc' = "done" /\ recall_tasks' = {}
       ELSE termPc' = "awaiting" /\ UNCHANGED recall_tasks
    /\ UNCHANGED <<conf, icpt, batch>>

\* Mutant: terminate() does not await the cancelled tasks.
GatherNotAwaited(snap) == TRUE

\* asyncio.gather(*snap, return_exceptions=True) is resolved: every handle
\* is done and its callbacks, added before gather's own, have run.
GatherDone(snap) == \A t \in snap : Done(t) /\ ~task[t].cbPending

\* terminate() resumed from gather: self.recall_tasks.clear()
TerminateResume ==
    /\ termPc = "awaiting"
    /\ GatherDone(termSnap)
    /\ recall_tasks' = {}
    /\ termPc' = "done"
    /\ UNCHANGED <<conf, task, icpt, termSnap, termAlone, batch>>

\* ------------------------------------------------------------ batch recall
\* user_id as the history service gives it: an integer or a string
UserIds == {[t |-> "int", v |-> 1], [t |-> "str", v |-> 2]}
Digits == <<"1", "2">>
Times == {10, 20, 30}

\* str(user_id)
Str(u) == Digits[u.v]

\* The mentioned user, str(segment.qq); "" when nobody is mentioned.
Targets == {"", "1", "2"}

\* The text after the command word: the last run of digits in it, if any,
\* and whether a minus sign stands before it.
Tails == [has_num : {TRUE}, neg : BOOLEAN, n : 0..MaxCount]
            \cup {[has_num |-> FALSE, neg |-> FALSE, n |-> 0]}

\* The histories the history service may return: entry k carries message
\* id k, or none (0).
EntryBodies == [has_id : BOOLEAN, sender : UserIds, time : Times]
HistoriesOfLen(n) ==
    {[k \in 1..n |-> [message_id |-> IF b[k].has_id THEN k ELSE 0,
                       sender |-> b[k].sender, time |-> b[k].time]] :
        b \in [1..n -> EntryBodies]}
Histories == UNION {HistoriesOfLen(n) : n \in 0..MaxHist}

BatchConfigs ==
    {c \in [recall_time : {0}, enable_private_recall : {TRUE},
             enable_group_recall : {TRUE}, group_whitelist : {{}},
             batch_max_count : {-1, 0, 1, DefaultBatchMax}] : TRUE}

Min(a, b) == IF a <= b THEN a ELSE b
Max(a, b) == IF a >= b THEN a ELSE b

\* lines 224-226: count capped at max_count
Clamp(count, max_count) == IF count > max_count THEN max_count ELSE count

\* Mutant: every fetched entry kept, whoever sent it.
FilterKeepAll(h, target) == [k \in 1..Len(h) |-> k]

\* lines 241-248: the entries (by their place in the history) kept by the
\* sender filter, in fetch order
Filter(h, target) ==
    IF target # ""
    THEN SelectSeq([k \in 1..Len(h) |-> k], LAMBDA k : Str(h[k].sender) = target)
    ELSE [k \in 1..Len(h) |-> k]

\* Mutant: an unstable sort, entries of equal time end in reverse order.
InsertDescUnstable(h, s, x) ==
    LET k == Cardinality({j \in 1..Len(s) : h[s[j]].time > h[x].time})
    IN  SubSeq(s, 1, k) \o <<x>> \o SubSeq(s, k + 1, Len(s))

\* One entry put into a list sorted by time, descending, behind the
\* entries of the same time already there.
InsertDesc(h, s, x) ==
    LET k == Cardinality({j \in 1..Len(s) : h[s[j]].time >= h[x].time})
    IN  SubSeq(s, 1, k) \o <<x>> \o SubSeq(s, k + 1, Len(s))

\* line 257: list.sort(key=time, reverse=True), a stable sort
RECURSIVE SortDesc(_, _)
SortDesc(h, s) ==
    IF s = <<>> THEN <<>>
    ELSE InsertDesc(h, SortDesc(h, SubSeq(s, 1, Len(s) - 1)), s[Len(s)])

\* line 258: s[:count], Python's slice (a negative count counts from the end)
SliceTo(s, count) ==
    IF count >= 0 THEN SubSeq(s, 1, Min(count, Len(s)))
    ELSE SubSeq(s, 1, Max(Len(s) + count, 0))

\* lines 261-264: the next entry at or after place p that has a message id
RECURSIVE NextWithId(_, _, _)
NextWithId(h, sel, p) ==
    IF p > Len(sel) THEN p
    ELSE IF h[sel[p]].message_id # 0 THEN p
    ELSE NextWithId(h, sel, p + 1)

BatchReply(b, text) ==
    [b EXCEPT !.pc = "done", !.replies = Append(@, text)]

\* lines 214-219: re.findall(r"\d+", tail) and int(nums[-1]): the digits
\* alone are read, a minus sign before them is no part of the match
ParsedCount(tail) == tail.n

\* batch_recall_command from its entry to the await of the history fetch,
\* for one event: platform, group, mentioned user and text after the command
BatchStartOn(isAio, gid, target, tail) ==
    /\ batch.pc = "idle"
    /\ batch' =
           IF ~isAio THEN BatchReply(batch, "unsupported_platform")
           ELSE IF gid = NoGroup THEN BatchReply(batch, "group_only")
           ELSE IF ~tail.has_num THEN BatchReply(batch, "need_count")
           ELSE IF ParsedCount(tail) <= 0 THEN BatchReply(batch, "need_positive")
           ELSE [batch EXCEPT !.pc = "fetching", !.target_qq = target,
                     !.requested = ParsedCount(tail),
                     !.count = Clamp(ParsedCount(tail), conf.batch_max_count),
                     !.fetch_count = Min(conf.batch_max_count * FetchFactor, FetchCap),
                     !.fetches = @ + 1]
    /\ UNCHANGED <<conf, recall_tasks, task, icpt, termPc, termSnap, termAlone>>

BatchStart ==
    \E isAio \in BOOLEAN, gid \in GroupIds \cup {NoGroup},
       target \in Targets, tail \in Tails :
        BatchStartOn(isAio, gid, target, tail)

\* lines 257-264 and 271-274: sort, slice, and on to the first delete call
\* (or to the final reply when no selected entry has a message id)
BatchSelect(b, h, filtered) ==
    LET sel == SliceTo(SortDesc(h, filtered), b.count)
        p == NextWithId(h, sel, 1)
        c == [b EXCEPT !.history = h, !.to_recall = sel, !.pos = p]
    IN  IF p > Len(sel)
        THEN BatchReply(c, "recalled")
        ELSE [c EXCEPT !.pc = "deleting", !.deleted = Append(@, sel[p])]

\* Mutant: the exception of the fetch leaves the handler.
FetchFailedEscapes(b) == [b EXCEPT !.pc = "raised"]

\* lines 236-239: the fetch raised: logger.error, one reply, return
FetchFailed(b) == BatchReply([b EXCEPT !.errors = @ + 1], "fetch_failed")

\* batch_recall_command resumed with the outcome of the history fetch
BatchFetchReturn ==
    /\ batch.pc = "fetching"
    /\ \/ batch' = FetchFailed(batch)
       \/ \E h \in Histories :
             LET filtered == Filter(h, batch.target_qq)
             IN  batch' =
                     IF filtered = <<>>
                     THEN BatchReply([batch EXCEPT !.history = h],
                              IF batch.target_qq # "" THEN "no_user_messages"
                              ELSE "no_bot_messages")
                     ELSE BatchSelect(batch, h, filtered)
    /\ UNCHANGED <<conf, recall_tasks, task, icpt, termPc, termSnap, termAlone>>

\* lines 265-269: success_count += 1 after a delete call that returned;
\* any exception of the call is caught and logged by logger.error
Tally(b, o) ==
    IF o.kind = "ok" THEN [b EXCEPT !.success = @ + 1]
    ELSE [b EXCEPT !.errors = @ + 1]

\* Mutant: a failed delete call ends the loop.
AfterDeleteStopOnFailure(b, o) ==
    IF o.kind = "ok" THEN NextWithId(b.history, b.to_recall, b.pos + 1)
    ELSE Len(b.to_recall) + 1

\* lines 260-269: the place of the loop after the delete call at b.pos
\* ended with outcome o: the except clause ends the iteration, not the loop
AfterDelete(b, o) == NextWithId(b.history, b.to_recall, b.pos + 1)

\* batch_recall_command resumed with outcome o of a delete call
BatchDeleteReturnOn(o) ==
    /\ batch.pc = "deleting"
    /\ LET b == Tally(batch, o)
           p == AfterDelete(batch, o)
       IN  batch' =
               IF p > Len(batch.to_recall)
               THEN BatchReply([b EXCEPT !.pos = p], "recalled")
               ELSE [b EXCEPT !.pos = p, !.deleted = Append(@, batch.to_recall[p])]
    /\ UNCHANGED <<conf, recall_tasks, task, icpt, termPc, termSnap, termAlone>>

BatchDeleteReturn == \E o \in DeleteOutcomes : BatchDeleteReturnOn(o)

\* ------------------------------------------------------------ specification
Init ==
    /\ conf \in DefaultPolicyConfigs
    /\ recall_tasks = {}
    /\ task = [t \in Events |-> NoTask]
    /\ icpt = [i \in Events |-> NoIntercept]
    /\ termPc = "idle"
    /\ termSnap = {}
    /\ termAlone = TRUE
    /\ batch = NoBatch

Next ==
    \/ \E i \in Events : InterceptStart(i)
    \/ \E i \in Events : InterceptSendReturn(i)
    \/ \E t \in Events : TaskStart(t)
    \/ Tick
    \/ \E t \in Events : TaskWake(t)
    \/ \E t \in Events : DeleteReturn(t)
    \/ \E t \in Events : TaskResume(t)
    \/ \E t \in Events : RemoveTask(t)
    \/ TerminateStart
    \/ TerminateResume

Spec == Init /\ [][Next]_vars

\* The intercept hook under every policy configuration.
InitPolicy ==
    /\ conf \in Configs
    /\ recall_tasks = {}
    /\ task = [t \in Events |-> NoTask]
    /\ icpt = [i \in Events |-> NoIntercept]
    /\ termPc = "idle"
    /\ termSnap = {}
    /\ termAlone = TRUE
    /\ batch = NoBatch

NextPolicy ==
    \/ \E i \in Events : InterceptStart(i)
    \/ \E i \in Events : InterceptSendReturn(i)

SpecPolicy == InitPolicy /\ [][NextPolicy]_vars

InitBatch ==
    /\ conf \in BatchConfigs
    /\ recall_tasks = {}
    /\ task = [t \in Events |-> NoTask]
    /\ icpt = [i \in Events |-> NoIntercept]
    /\ termPc = "idle"
    /\ termSnap = {}
    /\ termAlone = TRUE
    /\ batch = NoBatch

NextBatch ==
    \/ BatchStart
    \/ BatchFetchReturn
    \/ BatchDeleteReturn

SpecBatch == InitBatch /\ [][NextBatch]_vars

\* Every handler that awaits an external call, under the default
\* configuration: the scheduler and the batch handler, one of the two at
\* work in a behaviour.
SchedulerIdle ==
    /\ \A i \in Events : icpt[i].pc = "idle"
    /\ termPc = "idle"

NextCalls ==
    \/ batch.pc = "idle" /\ conf \in DefaultPolicyConfigs /\ Next
    \/ SchedulerIdle /\ conf \in BatchConfigs /\ NextBatch

SpecCalls == Init /\ [][NextCalls]_vars

\* The event loop runs every ready step, the clock advances, and every
\* delete call returns.  The hooks are the host's to call: no fairness.
Fairness ==
    /\ WF_vars(Tick)
    /\ \A t \in Events :
        /\ WF_vars(TaskStart(t))
        /\ WF_vars(TaskWake(t))
        /\ WF_vars(DeleteReturn(t))
        /\ WF_vars(TaskResume(t))
        /\ WF_vars(RemoveTask(t))

FairSpec == Spec /\ Fairness

\* ------------------------------------------------------------------ claims

\* C1: when terminate() has returned and no intercept hook ran since it was
\* called, the registry is empty and each of the N handles it found in the
\* registry is done (cancelled or completed): N events for N handles.
C1_DrainLeavesNothing ==
    (termPc = "done" /\ termAlone) =>
        /\ recall_tasks = {}
        /\ Cardinality({t \in termSnap : Done(t)}) = Cardinality(termSnap)

C1_Witness ==
    /\ termPc = "done" /\ termAlone
    /\ Cardinality(termSnap) >= 2
    /\ \E t \in termSnap : task[t].state = "cancelled"

\* C2: at the step in which terminate() returns, no recall task is still
\* scheduled, sleeping or deleting, whatever the intercept hook did meanwhile.
C2_NoLiveTaskAfterTeardown ==
    [][(termPc # "done" /\ termPc' = "done") =>
          \A t \in Events : task'[t].state \notin Live]_vars

\* C3 as claimed: every handle in the registry belongs to a task that is
\* not done, and every done task is absent from the registry.
C3_RegistryOnlyLive ==
    \A t \in Events :
        /\ t \in recall_tasks => ~Done(t)
        /\ Done(t) => t \notin recall_tasks

\* C3 amended: every handle in the registry belongs to a task that is not
\* done or whose done callback has not run yet, and every done task whose
\* callback has run is absent from the registry.
C3_RegistryLiveOrCallbackPending ==
    \A t \in Events :
        /\ t \in recall_tasks => (task[t].state \in Live \/ task[t].cbPending)
        /\ (Done(t) /\ ~task[t].cbPending) => t \notin recall_tasks

C3_Witness ==
    \E t \in Events :
        /\ task[t].state \in Completed /\ ~task[t].cbPending
        /\ t \notin recall_tasks /\ termPc = "idle"

\* C4: an intercept whose send call raised, or returned no message_id or
\* message_id 0, creates no task and leaves the registry as it was; no
\* delete call is ever issued for it.
C4_NoTaskWithoutMessageId ==
    [][\A i \in Events :
          LET r == icpt'[i].res
              invalid == r.kind \in {"exc", "nondict"} \/ ~r.has_id \/ r.message_id = 0
          IN  /\ (icpt[i].pc = "sending" /\ icpt'[i].pc = "done" /\ invalid) =>
                     (task' = task /\ recall_tasks' = recall_tasks)
              /\ (icpt'[i].pc = "done" /\ invalid) =>
                     (task'[i] = NoTask /\ i \notin recall_tasks')]_vars

C4_Witness ==
    \E i, j \in Events :
        /\ icpt[i].outcome = "scheduled" /\ task[i].state = "sleeping"
        /\ icpt[j].pc = "done" /\ icpt[j].res.kind = "dict"
        /\ icpt[j].res.has_id /\ icpt[j].res.message_id = 0

\* C5: a task issues at most one delete call, issues it only when its
\* delay has elapsed, and a task that completed without being cancelled
\* has issued exactly one, whatever the call's outcome.
C5_OneDeleteAfterDelay ==
    \A t \in Events :
        /\ task[t].deletes <= 1
        /\ task[t].deletes > 0 => task[t].slept >= conf.recall_time
        /\ task[t].state \in {"deleting", "success", "benign", "error"} =>
               task[t].deletes = 1

C5_Witness ==
    \E t \in Events :
        /\ task[t].state = "error" /\ task[t].deletes = 1
        /\ conf.recall_time > 0 /\ task[t].slept = conf.recall_time

\* C6: under fair scheduling every handle in the registry belongs to a
\* task that eventually is done and out of the registry.
C6_EveryTaskEnds ==
    \A t \in Events : (t \in recall_tasks) ~> (Done(t) /\ t \notin recall_tasks)

C6_Witness ==
    \E t \in Events :
        /\ task[t].state = "success" /\ t \notin recall_tasks
        /\ termPc = "idle"

\* C7: a task that ran to the end of its delete call ends by the call's
\* outcome: success with no error report; benign with no error report for
\* ActionFailed 1200; error with exactly one error report for any other
\* failure.  It never ends raised, and once its callback has run its handle
\* is out of the registry.
C7_OutcomeDecidesEnd ==
    \A t \in Events :
        /\ task[t].state # "raised"
        /\ (Done(t) /\ task[t].state # "cancelled" /\ task[t].deletes > 0) =>
            /\ task[t].delRes.kind = "ok" =>
                   (task[t].state = "success" /\ task[t].errors = 0)
            /\ task[t].delRes = Outcome("ActionFailed", BenignRetcode) =>
                   (task[t].state = "benign" /\ task[t].errors = 0)
            /\ (task[t].delRes.kind # "ok"
                    /\ task[t].delRes # Outcome("ActionFailed", BenignRetcode)) =>
                   (task[t].state = "error" /\ task[t].errors = 1)
            /\ ~task[t].cbPending => t \notin recall_tasks

C7_Witness ==
    \E t, u \in Events :
        /\ task[t].state = "benign" /\ ~task[t].cbPending /\ t \notin recall_tasks
        /\ task[u].state = "error" /\ task[u].delRes.kind = "ActionFailed"

\* The batch recall got as far as selecting entries (line 258).
BatchSelected ==
    batch.pc = "deleting" \/ (batch.pc = "done" /\ batch.replies = <<"recalled">>)

\* The fetched entries the sender filter lets through.
Eligible ==
    {k \in 1..Len(batch.history) :
        batch.target_qq = "" \/ Str(batch.history[k].sender) = batch.target_qq}

Picked == {batch.to_recall[j] : j \in 1..Len(batch.to_recall)}

\* C8: the count used for the selection lies in [1, max_count], and the
\* number of entries selected, and of delete calls issued, is at most
\* min(requested count, max_count, entries left after filtering).
C8_SelectionBounded ==
    BatchSelected =>
        LET bound == Min(Min(batch.requested, conf.batch_max_count),
                         Cardinality(Eligible))
        IN  /\ 1 <= batch.count /\ batch.count <= conf.batch_max_count
            /\ Len(batch.to_recall) <= bound
            /\ Len(batch.deleted) <= bound

\* C9: the selected entries are entries the filter lets through, most
\* recent first, entries of equal time in fetch order; every entry left
\* out is no more recent than any selected one (and fetched later when of
\* equal time); the delete calls go, in that order, to the selected entries
\* that have a message id.
C9_MostRecentFirst ==
    BatchSelected =>
        LET h == batch.history
            sel == batch.to_recall
        IN  /\ Picked \subseteq Eligible
            /\ Cardinality(Picked) = Len(sel)
            /\ \A a, b \in 1..Len(sel) :
                   a < b => \/ h[sel[a]].time > h[sel[b]].time
                            \/ h[sel[a]].time = h[sel[b]].time /\ sel[a] < sel[b]
            /\ \A u \in Eligible \ Picked : \A x \in Picked :
                   \/ h[u].time < h[x].time
                   \/ h[u].time = h[x].time /\ x < u
            /\ batch.deleted =
                   SelectSeq(SubSeq(sel, 1, Min(batch.pos, Len(sel))),
                             LAMBDA k : h[k].message_id # 0)

\* The scenario of the specification: three entries of senders A, B, A and
\* times 10, 20, 30, no target, two requested: entries 3 and 2 are recalled.
C9_Witness ==
    /\ batch.pc = "done" /\ batch.target_qq = "" /\ batch.requested = 2
    /\ conf.batch_max_count = DefaultBatchMax
    /\ Len(batch.history) = 3
    /\ [k \in 1..3 |-> batch.history[k].time] = <<10, 20, 30>>
    /\ [k \in 1..3 |-> Str(batch.history[k].sender)] = <<"1", "2", "1">>
    /\ batch.to_recall = <<3, 2>> /\ batch.deleted = <<3, 2>>

\* C10: with a target sender every selected entry and every delete call is
\* for an entry of that sender; with none, as many entries are selected as
\* the slice of the whole history holds, so none is left out for its sender.
C10_OnlyTargetSender ==
    BatchSelected =>
        /\ batch.target_qq # "" =>
               /\ \A k \in Picked : Str(batch.history[k].sender) = batch.target_qq
               /\ \A j \in 1..Len(batch.deleted) :
                      Str(batch.history[batch.deleted[j]].sender) = batch.target_qq
        /\ batch.target_qq = "" =>
               Len(batch.to_recall) = Len(SliceTo(batch.history, batch.count))

C10_Witness ==
    /\ batch.pc = "done" /\ batch.target_qq = "1"
    /\ Len(batch.history) = 3 /\ batch.count >= 3
    /\ Str(batch.history[2].sender) = "2" /\ batch.history[2].time = 30
    /\ batch.to_recall = <<3, 1>> /\ batch.deleted = <<3, 1>>

\* C11: a batch recall whose text holds no number, the number 0 or a
\* negative number ends at once with one rejecting reply: no history fetch,
\* no delete call, nothing else changed.
C11_InvalidCountRejected ==
    [][\A isAio \in BOOLEAN, gid \in GroupIds, target \in Targets, tail \in Tails :
          (BatchStartOn(isAio, gid, target, tail)
              /\ isAio /\ (~tail.has_num \/ tail.n = 0 \/ tail.neg)) =>
                 /\ batch'.pc = "done"
                 /\ batch'.replies \in {<<"need_count">>, <<"need_positive">>}
                 /\ batch'.fetches = 0 /\ batch'.deleted = <<>>]_vars

\* C12: in a batch recall every delete call that returns adds one to the
\* success count and every other outcome leaves it alone, the loop goes on
\* after either; so when the handler replies with its count, a delete call
\* was issued for every selected entry that has a message id, and the count
\* is at most the number of calls issued.
C12_FailedDeleteDoesNotAbort ==
    [][/\ \A o \in DeleteOutcomes :
              BatchDeleteReturnOn(o) =>
                  /\ batch'.success = batch.success + (IF o.kind = "ok" THEN 1 ELSE 0)
                  /\ batch'.pc = "done" <=>
                         \A k \in (batch.pos + 1)..Len(batch.to_recall) :
                             batch.history[batch.to_recall[k]].message_id = 0
       /\ (batch'.pc = "done" /\ batch'.replies = <<"recalled">>) =>
              /\ batch'.deleted =
                     SelectSeq(batch'.to_recall,
                               LAMBDA k : batch'.history[k].message_id # 0)
              /\ batch'.success + batch'.errors = Len(batch'.deleted)
              /\ batch'.success <= Len(batch'.deleted)]_vars

\* the first delete call failed and the second one has been issued
C12_Witness ==
    /\ batch.pc = "deleting" /\ batch.errors = 1 /\ batch.success = 0
    /\ Len(batch.deleted) = 2

\* C13: a delete call that fails with retcode 1200 is never logged as an
\* error: the recall task that issued it ends benign with no error logged,
\* and the batch handler resumed with it logs no error and leaves its
\* success count as it was.
C13_BenignNeverAnError ==
    [][/\ \A t \in Events :
              (/\ task[t].state = "deleting"
               /\ task[t].delRes = Outcome("ActionFailed", BenignRetcode)
               /\ task'[t].state \in Completed) =>
                  task'[t].state = "benign" /\ task'[t].errors = task[t].errors
       /\ BatchDeleteReturnOn(Outcome("ActionFailed", BenignRetcode)) =>
              batch'.errors = batch.errors /\ batch'.success = batch.success]_vars

\* the policy of the specification, written out
PolicyEligible(gid) ==
    IF gid = NoGroup THEN conf.enable_private_recall
    ELSE conf.enable_group_recall
             /\ (conf.group_whitelist = {} \/ gid \in conf.group_whitelist)

\* C14: the hook goes on to its send call for an aiocqhttp event with
\* content only if the event is eligible: a private one iff private recall
\* is enabled, a group one iff group recall is enabled and the allow-list is
\* empty or holds the group id.  For any other event it ends at once: no
\* send call, no recall task, the result's chain left as it was.
C14_SkippedUnlessEligible ==
    [][/\ \A i \in Events, gid \in GroupIds \cup {NoGroup}, isAio \in BOOLEAN,
             chain \in Chains, parsed \in Parses :
             InterceptStartOn(i, gid, isAio, chain, parsed) =>
                 /\ ~PolicyEligible(gid) =>
                        /\ icpt'[i].pc = "done" /\ icpt'[i].outcome = "skipped"
                        /\ icpt'[i].sends = 0 /\ icpt'[i].chain = "kept"
                        /\ task' = task /\ recall_tasks' = recall_tasks
                 /\ (PolicyEligible(gid) /\ isAio /\ chain = "full" /\ parsed = "ok") =>
                        icpt'[i].pc = "sending" /\ icpt'[i].sends = 1
       /\ \A i \in Events :
             icpt'[i].outcome = "skipped" =>
                 /\ icpt'[i].sends = 0 /\ icpt'[i].chain = "kept"
                 /\ task'[i].state = "none" /\ i \notin recall_tasks']_vars

\* with the allow-list {"1"} one event was skipped and another one was
\* sent and got its recall task
C14_Witness ==
    /\ conf.group_whitelist = {"1"} /\ conf.enable_group_recall
    /\ icpt[1].outcome = "skipped" /\ task[1].state = "none"
    /\ icpt[2].outcome = "scheduled" /\ task[2].state = "scheduled"

\* C15: no handler ends with an exception of an external call.  A send
\* call that raised ends the hook with no task; a delete call that raised
\* ends the recall task benign or in error (or cancelled by a drain); a
\* delete call that raised in the batch handler leaves it in its loop or at
\* its reply; a history fetch that raised ends the batch handler with the
\* failure reply alone and no delete call.
C15_NoFailureEscapes ==
    /\ \A i \in Events :
           /\ icpt[i].outcome # "raised"
           /\ icpt[i].res.kind = "exc" =>
                  /\ icpt[i].pc = "done" /\ icpt[i].outcome = "send_failed"
                  /\ task[i].state = "none"
    /\ \A t \in Events :
           /\ task[t].state # "raised"
           /\ (task[t].delRes.kind \in {"ActionFailed", "Exception"} /\ Done(t)) =>
                  task[t].state \in {"benign", "error"}
    /\ batch.pc \in {"idle", "fetching", "deleting", "done"}
    /\ "fetch_failed" \in {batch.replies[k] : k \in 1..Len(batch.replies)} =>
           /\ batch.pc = "done" /\ batch.replies = <<"fetch_failed">>
           /\ batch.deleted = <<>> /\ batch.success = 0
    /\ (batch.fetches = 1 /\ batch.errors > 0 /\ batch.pc = "done") =>
           batch.replies \in {<<"fetch_failed">>, <<"recalled">>}

\* the history fetch has failed
C15_Witness ==
    /\ batch.fetches = 1 /\ batch.pc = "done" /\ batch.errors = 1
    /\ batch.replies = <<"fetch_failed">> /\ batch.deleted = <<>>

\* C16: the step that creates a recall task leaves it scheduled, not yet
\* run, its callback not yet due and its handle in the registry, whatever
\* the delay; and no handle of a task that is done and whose callback has
\* run is in the registry.
C16_RegisteredBeforeCompletion ==
    [][\A t \in Events :
          /\ (task[t].state = "none" /\ task'[t].state # "none") =>
                 /\ task'[t].state = "scheduled" /\ ~task'[t].cbPending
                 /\ t \in recall_tasks'
          /\ (task[t].cbPending /\ ~task'[t].cbPending) =>
                 Done(t) /\ t \notin recall_tasks'
          /\ (task'[t].state \in Terminal /\ ~task'[t].cbPending) =>
                 t \notin recall_tasks']_vars

\* delay 0 and a delete call that returned: the task is done, its callback
\* has removed its handle, no drain was involved
C16_Witness ==
    /\ conf.recall_time = 0 /\ termPc = "idle"
    /\ task[1].state = "success" /\ ~task[1].cbPending
    /\ 1 \notin recall_tasks

\* the steps of a recall task other than into Cancelled: Scheduled ->
\* Sleeping -> Deleting -> Success | Benign | Error (a task whose message
\* id is 0 ends after its sleep with no delete call)
TaskStep(a, b) ==
    \/ a = "none" /\ b = "scheduled"
    \/ a = "scheduled" /\ b = "sleeping"
    \/ a = "sleeping" /\ b \in {"deleting", "noop"}
    \/ a = "deleting" /\ b \in {"success", "benign", "error"}

\* C17 as stated: Cancelled is entered from Sleeping or Deleting only.
C17_CancelledFromSleepingOrDeleting ==
    [][\A t \in Events :
          task'[t].state # task[t].state =>
              \/ TaskStep(task[t].state, task'[t].state)
              \/ /\ task'[t].state = "cancelled"
                 /\ task[t].state \in {"sleeping", "deleting"}
                 /\ task[t].cancelReq]_vars

\* C17: a recall task goes Scheduled -> Sleeping -> Deleting -> Success |
\* Benign | Error; it enters Cancelled only after a drain has cancelled it,
\* from Scheduled, Sleeping or Deleting; a task that has ended changes
\* state no more and issues no delete call; a task cancelled before its
\* delete call was issued never issues one.
C17_TaskLifecycle ==
    [][\A t \in Events :
          /\ task'[t].state # task[t].state =>
                 \/ TaskStep(task[t].state, task'[t].state)
                 \/ /\ task'[t].state = "cancelled"
                    /\ task[t].state \in {"scheduled", "sleeping", "deleting"}
                    /\ task[t].cancelReq
          /\ (task[t].cancelReq /\ ~task'[t].cancelReq) => FALSE
          /\ (~task[t].cancelReq /\ task'[t].cancelReq) =>
                 /\ termPc \in {"idle", "done"} /\ task[t].state \in Live
                 /\ t \in recall_tasks
          /\ task[t].state \in Terminal =>
                 /\ task'[t].state = task[t].state
                 /\ task'[t].deletes = task[t].deletes
          /\ (task[t].cancelReq /\ task[t].state \in {"scheduled", "sleeping"}) =>
                 /\ task'[t].state \in {task[t].state, "cancelled"}
                 /\ task'[t].deletes = 0
          /\ task'[t].state \in {"deleting", "success", "benign", "error"} =>
                 task'[t].deletes = 1
          /\ task'[t].state \in {"none", "scheduled", "sleeping", "noop"} =>
                 task'[t].deletes = 0
          /\ task'[t].deletes <= 1]_vars

\* a task cancelled by a drain before its first step, ended with no delete
\* call
C17_Witness ==
    \E t \in Events :
        /\ task[t].state = "cancelled" /\ task[t].deletes = 0
        /\ task[t].slept = 0 /\ ~task[t].cbPending
        /\ \E u \in Events : task[u].state = "cancelled" /\ task[u].deletes = 1

\* C18: a step in which the delete call of one recall task returns or
\* fails, or in which that task ends on it, changes no other task and
\* leaves the registry as it was; the step of a task's completion callback
\* removes that task's handle alone and changes no other task.
C18_TasksIndependent ==
    [][\A t \in Events :
          /\ (/\ task[t].state = "deleting"
              /\ \/ task'[t].state # task[t].state
                 \/ task'[t].delRes # task[t].delRes) =>
                 /\ \A u \in Events \ {t} : task'[u] = task[u]
                 /\ recall_tasks' = recall_tasks
          /\ (task[t].cbPending /\ ~task'[t].cbPending) =>
                 /\ \A u \in Events \ {t} : task'[u] = task[u]
                 /\ recall_tasks' = recall_tasks \ {t}]_vars

\* of two registered tasks one is still in its delete call, the other's
\* delete call failed and its handle alone has been removed
C18_Witness ==
    /\ termPc = "idle"
    /\ task[1].state = "deleting" /\ 1 \in recall_tasks
    /\ task[2].state = "error" /\ ~task[2].cbPending /\ 2 \notin recall_tasks

\* C19: terminate() called on an empty registry, be it the first call or a
\* call after an earlier one has returned, cancels nothing, changes no
\* task, returns in the same step and leaves the registry empty; and
\* whenever terminate() has returned and nothing was registered since, the
\* registry is empty.
C19_DrainIdempotent ==
    [][/\ (TerminateStart /\ recall_tasks = {}) =>
              /\ task' = task /\ recall_tasks' = {} /\ termPc' = "done"
              /\ termSnap' = {}
       /\ (termPc # "done" /\ termPc' = "done") => recall_tasks' = {}
       /\ (termPc = "done" /\ recall_tasks = {} /\ recall_tasks' # {}) =>
              \E i \in Events : icpt[i].pc = "sending" /\ icpt'[i].pc = "done"]_vars

\* a first drain cancelled a task, a second one found the registry empty
C19_Witness ==
    /\ termPc = "done" /\ termSnap = {} /\ recall_tasks = {}
    /\ \E t \in Events : task[t].state = "cancelled" /\ ~task[t].cbPending

\* C20: an invocation of the hook issues at most one send call, and when
\* it issues it the result's chain has been cleared and stays cleared; the
\* number of its send calls changes only in the step that issues the call.
C20_OneSubstituteSend ==
    [][\A i \in Events :
          /\ icpt'[i].sends <= 1
          /\ icpt'[i].sends = 1 => icpt'[i].chain = "cleared"
          /\ icpt'[i].sends # icpt[i].sends =>
                 /\ icpt[i].pc = "idle" /\ icpt'[i].pc = "sending"
                 /\ icpt[i].sends = 0
          /\ icpt[i].chain = "cleared" => icpt'[i].chain = "cleared"]_vars

\* the hook has sent the message itself, once, and scheduled its recall
C20_Witness ==
    /\ icpt[1].pc = "done" /\ icpt[1].outcome = "scheduled"
    /\ icpt[1].sends = 1 /\ icpt[1].chain = "cleared"

====
